---- MODULE Spec2Model ----
(***************************************************************************)
(* Model of robotremoteserver.py (RobotRemoteServer, Python 2).            *)
(*                                                                         *)
(* Texts are sequences of character codes.  A code below 256 is that       *)
(* byte / code point, ReplacementChar is U+FFFD, and a code at or above    *)
(* TokBase stands for a run of printable ASCII characters that the         *)
(* program produces as a unit (an exception kind name, a log line, the     *)
(* traceback header, ...).                                                 *)
(* A Python value is a record [tag, s, items]: tag names its type, s holds *)
(* the characters of a text (or the digits of a number), items the         *)
(* elements of a list or the [k, v] pairs of a dict.                       *)
(***************************************************************************)
EXTENDS Integers, Sequences, FiniteSets, TLC

\* ------------------------------------------------------------------ bounds
MaxRequests == 2
MaxWrites == 2
MaxSignals == 1

\* ------------------------------------------------- characters and lexemes
TokBase == 1000
ReplacementChar == 65533
TokStarting == 1001
TokStopping == 1002
TokNoStopping == 1003
TokWarn == 1004
TokColonSpace == 1005
TokTracebackHeader == 1006
TokNotCallable == 1007
TokRepr == 1008
TokFrame == 1009
TokEngineFrame == 1010
TokDoc == 1011
TokInitDoc == 1012
TokIntro == 1013
TokKindBase == 1100
DigitZero == 48

\* BINARY = re.compile('[\x00-\x08\x0B\x0C\x0E-\x1F]')
BINARY == (0..8) \cup {11, 12} \cup (14..31)

\* a character outside ASCII: a byte from 0x80 on, or U+FFFD
NonAscii(c) == c >= 128 /\ (c < TokBase \/ c = ReplacementChar)

\* ------------------------------------------------------------ Python values
Val(tag, s, items) == [tag |-> tag, s |-> s, items |-> items]
StrVal(s) == Val("str", s, <<>>)
UnicodeVal(s) == Val("unicode", s, <<>>)
BinaryVal(s) == Val("Binary", s, <<>>)
IntVal(n) == Val("int", <<n>>, <<>>)
NoneVal == Val("None", <<>>, <<>>)
ListVal(items) == Val("list", <<>>, items)
DictVal(items) == Val("dict", <<>>, items)
ObjectVal(s) == Val("object", s, <<>>)
Pair(k, v) == [k |-> k, v |-> v]

\* A raised exception that leaves the codec: the tag is its kind.
RaiseTags == {"ValueError", "TypeError", "UnicodeDecodeError"}
Raise(kind) == Val(kind, <<>>, <<>>)
IsRaise(v) == v.tag \in RaiseTags

IsBasestring(v) == v.tag \in {"str", "unicode"}

\* BINARY.search(result)
BinarySearch(s) == \E i \in DOMAIN s : s[i] \in BINARY

\* unicode(result, errors='replace'): ASCII decoding, bad bytes become U+FFFD
DecodeReplace(s) == [i \in DOMAIN s |-> IF NonAscii(s[i]) THEN ReplacementChar ELSE s[i]]

\* _handle_binary_result as it would be if a text that str() cannot convert
\* were passed on with its characters replaced instead of raising
HandleBinaryResultLenient(result) ==
    IF ~BinarySearch(result.s)
    THEN IF result.tag = "str" THEN UnicodeVal(DecodeReplace(result.s)) ELSE result
    ELSE BinaryVal(result.s)

\* _handle_binary_result
HandleBinaryResult(result) ==
    IF ~BinarySearch(result.s)
    THEN IF result.tag = "str" THEN UnicodeVal(DecodeReplace(result.s)) ELSE result
    ELSE IF result.tag = "unicode" /\ \E i \in DOMAIN result.s : NonAscii(result.s[i])
         THEN Raise("ValueError")
         ELSE BinaryVal(result.s)

\* unicode(item) for an item that is not a basestring
UnicodeOf(item) ==
    CASE item.tag = "int" -> UnicodeVal(<<DigitZero + item.s[1]>>)
      [] item.tag = "object" -> UnicodeVal(item.s)
      [] OTHER -> UnicodeVal(<<TokRepr>>)

\* _str
PyStr(item) ==
    IF item.tag = "None" THEN StrVal(<<>>)
    ELSE IF ~IsBasestring(item) THEN HandleBinaryResult(UnicodeOf(item))
    ELSE HandleBinaryResult(item)

\* dict([...]): a later pair replaces an earlier one with an equal key
RECURSIVE DictFromPairs(_)
DictFromPairs(pairs) ==
    IF pairs = <<>> THEN <<>>
    ELSE LET n == Len(pairs)
             init == DictFromPairs(SubSeq(pairs, 1, n - 1))
             last == pairs[n]
         IN IF \E i \in DOMAIN init : init[i].k = last.k
            THEN [i \in DOMAIN init |-> IF init[i].k = last.k THEN last ELSE init[i]]
            ELSE Append(init, last)

FirstRaise(seq) ==
    LET idx == {i \in DOMAIN seq : IsRaise(seq[i])}
    IN seq[CHOOSE i \in idx : \A j \in idx : i <= j]

\* _handle_return_value
RECURSIVE HandleReturnValue(_)
HandleReturnValue(ret) ==
    IF IsBasestring(ret) THEN HandleBinaryResult(ret)
    ELSE IF ret.tag = "int" THEN ret
    ELSE IF ret.tag = "dict" THEN
        LET flat == [i \in 1..(2 * Len(ret.items)) |->
                        IF i % 2 = 1 THEN PyStr(ret.items[(i + 1) \div 2].k)
                        ELSE HandleReturnValue(ret.items[i \div 2].v)]
        IN IF \E i \in DOMAIN flat : IsRaise(flat[i]) THEN FirstRaise(flat)
           \* xmlrpclib.Binary defines __cmp__ and no __hash__: unhashable
           ELSE IF \E i \in DOMAIN ret.items : flat[2 * i - 1].tag = "Binary"
                THEN Raise("TypeError")
           ELSE DictVal(DictFromPairs([i \in DOMAIN ret.items |->
                                          Pair(flat[2 * i - 1], flat[2 * i])]))
    ELSE IF ret.tag = "list" THEN
        LET enc == [i \in DOMAIN ret.items |-> HandleReturnValue(ret.items[i])]
        IN IF \E i \in DOMAIN enc : IsRaise(enc[i])
           THEN IF FirstRaise(enc).tag = "TypeError" THEN PyStr(ret)
                ELSE FirstRaise(enc)
           ELSE ListVal(enc)
    ELSE PyStr(ret)

\* _handle_binary_arg as it would be if a Binary were handed on as it came
HandleBinaryArgKeep(arg) == arg

\* _handle_binary_arg: str(arg) of a Binary is its data
HandleBinaryArg(arg) == IF arg.tag # "Binary" THEN arg ELSE StrVal(arg.s)

\* _handle_binary_args
HandleBinaryArgs(args) == [i \in DOMAIN args |-> HandleBinaryArg(args[i])]

\* ------------------------------------------------------------ error details
\* _generic_exceptions, _fatal_exceptions (membership is by exact type)
GenericExceptions == {"AssertionError", "RuntimeError", "Exception"}
FatalExceptions == {"SystemExit", "KeyboardInterrupt"}

KindNames == <<"AssertionError", "RuntimeError", "Exception", "ValueError",
               "TypeError", "SystemExit", "KeyboardInterrupt", "AttributeError",
               "LookupError">>
\* exc_type.__name__
KindTok(kind) == TokKindBase + (CHOOSE i \in DOMAIN KindNames : KindNames[i] = kind)

\* _get_message_from_exception: unicode(value), or the arguments decoded with
\* errors='replace' when that fails; then _handle_binary_result
GetMessageFromException(value) ==
    HandleBinaryResult(IF value.tag = "str" THEN UnicodeVal(DecodeReplace(value.s))
                       ELSE value)

\* _get_error_message as it would be if the generic kinds were matched by
\* subclass: every kind derives from Exception and loses its prefix
GetErrorMessageBySubclass(kind, value) ==
    LET message == GetMessageFromException(value)
    IN IF IsRaise(message) THEN message
       ELSE IF message.tag # "Binary" /\ message.s = <<>> THEN StrVal(<<KindTok(kind)>>)
       ELSE message

\* _get_error_message
GetErrorMessage(kind, value) ==
    LET name == StrVal(<<KindTok(kind)>>)
        message == GetMessageFromException(value)
    IN IF IsRaise(message) THEN message
       \* "not message": a Binary instance is always true
       ELSE IF message.tag # "Binary" /\ message.s = <<>> THEN name
       ELSE IF kind \in GenericExceptions THEN message
       \* '%s: %s' % (name, message): str(Binary) is its data
       ELSE Val(IF message.tag = "Binary" THEN "str" ELSE "unicode",
                name.s \o <<TokColonSpace>> \o message.s, <<>>)

\* _get_error_traceback: the first entry (this class's frame) is dropped
GetErrorTraceback(tb) == StrVal(<<TokTracebackHeader>> \o Tail(tb))

\* ------------------------------------------------------------------ inputs
AttrNames == <<"__init__", "_private", "data", "getKeywordNames", "get_keyword_names", "kw",
               "stop_remote_server">>

\* A backing object: attrs maps each attribute it has to "routine" or "data";
\* kwnames is what its own get_keyword_names / getKeywordNames returns;
\* ismodule tells a module from an instance; docs holds the docstrings its
\* routines have and intro its own.
Lib(routines, data, kwnames, ismodule, docs, intro) ==
    [attrs |-> [a \in routines \cup data |-> IF a \in routines THEN "routine" ELSE "data"],
     kwnames |-> kwnames, ismodule |-> ismodule, docs |-> docs, intro |-> intro]

\* an instance whose class documents itself, its __init__ and kw; a module
\* with a function named __init__ that has a docstring; an instance of a class
\* with neither __init__ nor docstring of its own
Libraries ==
    { Lib({"__init__", "kw", "_private", "stop_remote_server"}, {"data"}, <<>>, FALSE,
          ("kw" :> <<TokDoc>>) @@ ("__init__" :> <<TokInitDoc>>), <<TokIntro>>),
      Lib({"__init__", "kw", "get_keyword_names"}, {}, <<"kw", "missing">>, TRUE,
          ("__init__" :> <<TokInitDoc>>), <<>>),
      Lib({"kw", "getKeywordNames"}, {"get_keyword_names"}, <<"stop_remote_server">>, FALSE,
          ("kw" :> <<TokDoc>>), <<>>) }

RequestNames == {"kw", "stop_remote_server", "missing"}

\* the names asked about: those, an attribute that is no routine, and the two
\* special names of get_keyword_documentation
ArgumentNames == RequestNames \cup {"data"}
DocNames == RequestNames \cup {"__intro__", "__init__"}

\* How a routine is declared: whether it is a method, and its parameters in
\* the order of the def statement, each required, defaulted (with the text of
\* str(default)), the * collector or the ** collector.
Param(name, kind, default) == [name |-> name, kind |-> kind, default |-> default]
Decl(method, params) == [method |-> method, params |-> params]
Decls ==
    { Decl(FALSE, <<>>),
      Decl(FALSE, <<Param("a", "required", "")>>),
      Decl(FALSE, <<Param("a", "default", "1"), Param("b", "default", "None")>>),
      Decl(TRUE, <<Param("self", "required", "")>>),
      Decl(TRUE, <<Param("self", "required", ""), Param("a", "required", ""),
                   Param("b", "default", "1"), Param("args", "varargs", ""),
                   Param("kwargs", "kwargs", "")>>),
      Decl(TRUE, <<Param("args", "varargs", "")>>),
      Decl(FALSE, <<Param("a", "required", ""), Param("kw", "kwargs", "")>>) }

\* def stop_remote_server(self)
StopDecl == Decl(TRUE, <<Param("self", "required", "")>>)

Ascii == 97
Ctrl == 1
High == 233

\* the values sent through the codec: every byte string and unicode text of up
\* to MaxLen of these characters, a number and a list
MaxLen == 2
Texts == UNION {[1..n -> {Ascii, Ctrl, High}] : n \in 0..MaxLen}
CodecValues ==
    {StrVal(s) : s \in Texts} \cup {UnicodeVal(s) : s \in Texts}
    \cup {IntVal(1), ListVal(<<StrVal(<<Ctrl>>)>>)}

\* what a keyword writes to sys.stdout
Pieces == {StrVal(<<Ascii>>), StrVal(<<Ctrl>>), StrVal(<<High>>), UnicodeVal(<<High>>)}

\* what a keyword returns
ReturnValues ==
    { StrVal(<<Ascii>>), StrVal(<<Ascii, Ctrl>>), UnicodeVal(<<Ctrl, High>>),
      IntVal(1), NoneVal, ObjectVal(<<Ascii>>),
      DictVal(<<Pair(IntVal(1), StrVal(<<High>>))>>),
      DictVal(<<Pair(StrVal(<<Ctrl>>), IntVal(1))>>),
      ListVal(<<StrVal(<<Ctrl>>), NoneVal>>),
      ListVal(<<DictVal(<<Pair(StrVal(<<Ctrl>>), IntVal(1))>>)>>) }

\* what a keyword raises: the kind, the message (the single argument, empty
\* when there is none) and the traceback entries, this class's frame first
Messages == { StrVal(<<>>), StrVal(<<Ascii>>), StrVal(<<Ascii, Ctrl>>),
              StrVal(<<High>>), StrVal(<<Ctrl, High>>), UnicodeVal(<<Ctrl, High>>) }
Failures ==
    ({"RuntimeError"} \X Messages)
    \cup ({"ValueError"} \X {StrVal(<<>>), StrVal(<<Ascii>>), StrVal(<<Ascii, Ctrl>>)})
    \cup ({"AssertionError", "Exception"} \X {StrVal(<<Ascii>>)})
    \cup ({"SystemExit", "KeyboardInterrupt"} \X {StrVal(<<>>)})

Returned(v) == [type |-> "return", kind |-> "", value |-> v, tb |-> <<>>]
Raised(kind, msg, tb) == [type |-> "raise", kind |-> kind, value |-> msg, tb |-> tb]
NoOutcome == [type |-> "none", kind |-> "", value |-> NoneVal, tb |-> <<>>]

Outcomes ==
    {Returned(v) : v \in ReturnValues}
    \cup {Raised(f[1], f[2], <<TokEngineFrame, TokFrame>>) : f \in Failures}

\* ------------------------------------------------------------------- state
VARIABLES
    library,      \* self._library
    allow_stop,   \* self._allow_stop
    shutdown,     \* self._shutdown
    handlers,     \* whether the signal handlers are installed
    sys_stdout,   \* sys.stdout: the console, or a StringIO and what it holds
    pc,           \* where the server's single thread is
    inv,          \* run_keyword's locals while an invocation is in flight
    response,     \* what the last request handed back to the transport
    event,        \* what stop_remote_server did in the last step, if it ran
    reqCount,     \* requests accepted so far
    sigCount,     \* signals delivered so far
    wrCount,      \* keyword writes so far
    codec         \* a value on its way to a client and back as an argument

vars == <<library, allow_stop, shutdown, handlers, sys_stdout, pc, inv, response,
          event, reqCount, sigCount, wrCount, codec>>

\* sys.__stdout__
Console == [target |-> "console", buflist |-> <<>>, closed |-> FALSE]
\* StringIO()
NewStringIO == [target |-> "StringIO", buflist |-> <<>>, closed |-> FALSE]

NoResult == [status |-> "", return |-> NoneVal, output |-> NoneVal, error |-> NoneVal,
             traceback |-> NoneVal]
NoInv == [id |-> 0, name |-> "", kw |-> "", outcome |-> NoOutcome, result |-> NoResult,
          mode |-> "", output |-> NoneVal, srcs |-> <<>>, stale |-> FALSE]
NoResponse == [type |-> "none", kind |-> "", names |-> <<>>, result |-> NoResult,
               call |-> NoInv, name |-> "", decl |-> Decl(FALSE, <<>>), args |-> <<>>,
               doc |-> <<>>]
NoEvent == [op |-> "none", via |-> "", allowed |-> FALSE, down |-> FALSE,
            returned |-> FALSE, log |-> <<>>]

InFlight == {"call", "getvalue", "close", "assign", "encode"}

\* sys.stdout.write(s) for the text s, written while invocation `id` is in
\* flight (0: none).  StringIO.write ignores an empty text and complains when
\* closed; what the console shows is not kept.
StdoutWrite(out, s, id) ==
    IF out.target = "console" THEN [ok |-> TRUE, out |-> out]
    ELSE IF out.closed THEN [ok |-> FALSE, out |-> out]
    ELSE IF s.s = <<>> THEN [ok |-> TRUE, out |-> out]
    ELSE [ok |-> TRUE,
          out |-> [out EXCEPT !.buflist = Append(@, [text |-> s, inv |-> id])]]

\* _log
Log(out, msg, level, id) ==
    StdoutWrite(out, StrVal(IF level THEN <<TokWarn>> \o msg ELSE msg), id)

\* stop_remote_server as it would be if the stop flag were set whether or not
\* stopping is allowed
StopRemoteServerUnconditional(allow, down, out, id) ==
    LET w == Log(out, IF allow THEN <<TokStopping>> ELSE <<TokNoStopping>>, ~allow, id)
    IN [raised |-> ~w.ok, out |-> w.out, shutdown |-> (w.ok \/ down),
        returned |-> w.ok,
        log |-> IF ~w.ok THEN <<>>
                ELSE IF allow THEN <<TokStopping>> ELSE <<TokWarn, TokNoStopping>>]

\* stop_remote_server as it would be if an allowed stop flipped the flag
StopRemoteServerToggle(allow, down, out, id) ==
    IF allow
    THEN LET w == Log(out, <<TokStopping>>, FALSE, id)
         IN [raised |-> ~w.ok, out |-> w.out, shutdown |-> IF w.ok THEN ~down ELSE down,
             returned |-> w.ok, log |-> IF w.ok THEN <<TokStopping>> ELSE <<>>]
    ELSE LET w == Log(out, <<TokNoStopping>>, TRUE, id)
         IN [raised |-> ~w.ok, out |-> w.out, shutdown |-> down,
             returned |-> w.ok, log |-> IF w.ok THEN <<TokWarn, TokNoStopping>> ELSE <<>>]

\* stop_remote_server, run with the given flags and sys.stdout: the new
\* sys.stdout and _shutdown, whether _log raised, whether True was returned
StopRemoteServer(allow, down, out, id) ==
    IF allow
    THEN LET w == Log(out, <<TokStopping>>, FALSE, id)
         IN [raised |-> ~w.ok, out |-> w.out, shutdown |-> (w.ok \/ down),
             returned |-> w.ok, log |-> IF w.ok THEN <<TokStopping>> ELSE <<>>]
    ELSE LET w == Log(out, <<TokNoStopping>>, TRUE, id)
         IN [raised |-> ~w.ok, out |-> w.out, shutdown |-> down,
             returned |-> w.ok, log |-> IF w.ok THEN <<TokWarn, TokNoStopping>> ELSE <<>>]

\* what one run of stop_remote_server did: the flags it found, whether it
\* returned True and the line it wrote
StopEvent(via, allow, down, eff) ==
    [op |-> "stop", via |-> via, allowed |-> allow, down |-> down,
     returned |-> eff.returned, log |-> eff.log]

\* get_keyword_names
GetKeywordNames(lib) ==
    LET has(a) == a \in DOMAIN lib.attrs
        get_kw_names == IF has("get_keyword_names") THEN "get_keyword_names"
                        ELSE IF has("getKeywordNames") THEN "getKeywordNames"
                        ELSE ""
        listed == SelectSeq(AttrNames,
                            LAMBDA a : /\ has(a)
                                       /\ a \notin {"__init__", "_private"}
                                       /\ lib.attrs[a] = "routine")
        names == IF get_kw_names # "" /\ lib.attrs[get_kw_names] = "routine"
                 THEN lib.kwnames ELSE listed
    IN names \o <<"stop_remote_server">>

\* _get_keyword: "stop" is self.stop_remote_server, "lib" a routine of the
\* library, "none" is None
GetKeyword(lib, name) ==
    IF name = "stop_remote_server" THEN "stop"
    ELSE IF name \in DOMAIN lib.attrs /\ lib.attrs[name] = "routine" THEN "lib"
    ELSE "none"

\* inspect.getargspec(kw) and inspect.ismethod(kw) of a routine so declared
GetArgSpec(decl) ==
    LET named == SelectSeq(decl.params, LAMBDA p : p.kind \in {"required", "default"})
        dflt == SelectSeq(decl.params, LAMBDA p : p.kind = "default")
        star == SelectSeq(decl.params, LAMBDA p : p.kind = "varargs")
        dstar == SelectSeq(decl.params, LAMBDA p : p.kind = "kwargs")
    IN [args |-> [i \in DOMAIN named |-> named[i].name],
        varargs |-> IF star = <<>> THEN "" ELSE star[1].name,
        kwargs |-> IF dstar = <<>> THEN "" ELSE dstar[1].name,
        defaults |-> [i \in DOMAIN dflt |-> dflt[i].default],
        ismethod |-> decl.method]

\* the rest of _arguments_from_kw, from the argument names left
FormatArguments(args, spec) ==
    LET n == IF Len(spec.defaults) < Len(args) THEN Len(spec.defaults) ELSE Len(args)
        lo == Len(args) - n
        bare == [i \in 1..lo |-> <<args[i]>>]
        named == [i \in 1..n |-> <<args[lo + i], "=", spec.defaults[i]>>]
    IN bare \o named
       \o (IF spec.varargs # "" THEN <<(<<"*", spec.varargs>>)>> ELSE <<>>)
       \o (IF spec.kwargs # "" THEN <<(<<"**", spec.kwargs>>)>> ELSE <<>>)

\* _arguments_from_kw as it would be if the first argument of a method were
\* kept
ArgumentsFromKwKeepSelf(spec) == FormatArguments(spec.args, spec)

\* _arguments_from_kw: each argument is <<name>>, <<name, "=", default>>,
\* <<"*", name>> or <<"**", name>>
ArgumentsFromKw(spec) ==
    FormatArguments(IF spec.ismethod THEN SubSeq(spec.args, 2, Len(spec.args))
                    ELSE spec.args, spec)

\* get_keyword_arguments as it would be without the test of kw: getargspec
\* raises TypeError for None
GetKeywordArgumentsUnguarded(lib, name, decl) ==
    LET kw == GetKeyword(lib, name)
    IN IF kw = "none" THEN [raised |-> TRUE, args |-> <<>>]
       ELSE [raised |-> FALSE,
             args |-> ArgumentsFromKw(GetArgSpec(IF kw = "stop" THEN StopDecl ELSE decl))]

\* get_keyword_arguments; decl is how the routine of the library is declared
GetKeywordArguments(lib, name, decl) ==
    LET kw == GetKeyword(lib, name)
    IN IF kw = "none" THEN [raised |-> FALSE, args |-> <<>>]
       ELSE [raised |-> FALSE,
             args |-> ArgumentsFromKw(GetArgSpec(IF kw = "stop" THEN StopDecl ELSE decl))]

\* inspect.getdoc of what _get_keyword returns, or ''
GetDoc(lib, name) ==
    IF GetKeyword(lib, name) = "lib" /\ name \in DOMAIN lib.docs THEN lib.docs[name]
    ELSE <<>>

\* get_keyword_documentation as it would be if '__init__' were answered with
\* '' whatever the library is
GetKeywordDocumentationBlankInit(lib, name) ==
    IF name = "__intro__" THEN lib.intro
    ELSE IF name = "__init__" THEN <<>>
    ELSE GetDoc(lib, name)

\* get_keyword_documentation
GetKeywordDocumentation(lib, name) ==
    IF name = "__intro__" THEN lib.intro
    ELSE IF name = "__init__" /\ lib.ismodule THEN <<>>
    ELSE GetDoc(lib, name)

\* _intercept_stdout as it would be if an installed capture buffer were kept
\* instead of being replaced
InterceptStdoutReuse(out) == IF out.target = "StringIO" /\ ~out.closed THEN out ELSE NewStringIO

\* _intercept_stdout
InterceptStdout(out) == NewStringIO

\* StringIO.getvalue(): '' + ''.join(buflist); joining unicode with a byte
\* string that is not ASCII raises UnicodeDecodeError
RECURSIVE Concat(_)
Concat(texts) == IF texts = <<>> THEN <<>> ELSE Head(texts).text.s \o Concat(Tail(texts))

\* getvalue as it would be if only the last write were kept
GetValueLastWrite(out) ==
    IF out.buflist = <<>> THEN StrVal(<<>>) ELSE out.buflist[Len(out.buflist)].text

GetValue(out) ==
    LET b == out.buflist
        anyUnicode == \E i \in DOMAIN b : b[i].text.tag = "unicode"
        badStr == \E i \in DOMAIN b : /\ b[i].text.tag = "str"
                                      /\ \E j \in DOMAIN b[i].text.s : NonAscii(b[i].text.s[j])
    IN IF anyUnicode /\ badStr THEN Raise("UnicodeDecodeError")
       ELSE Val(IF anyUnicode THEN "unicode" ELSE "str", Concat(b), <<>>)

\* no value under way
NoCodec == [stage |-> "none", orig |-> NoneVal, wire |-> NoneVal, arg |-> NoneVal]

InitServer ==
    /\ library \in Libraries
    /\ allow_stop \in BOOLEAN
    /\ shutdown = FALSE
    /\ handlers = FALSE
    /\ sys_stdout = Console
    /\ pc = "register"
    /\ inv = NoInv
    /\ response = NoResponse
    /\ event = NoEvent
    /\ reqCount = 0
    /\ sigCount = 0
    /\ wrCount = 0

Init == InitServer /\ codec = NoCodec

\* ----------------------------------------------------------------- actions
\* _register_signal_handlers
RegisterSignalHandlers ==
    /\ pc = "register"
    /\ handlers' = TRUE
    /\ pc' = "announce"
    /\ event' = NoEvent
    /\ UNCHANGED <<library, allow_stop, shutdown, sys_stdout, inv, response, reqCount,
                   sigCount, wrCount, codec>>

\* _announce_start
AnnounceStart ==
    /\ pc = "announce"
    /\ sys_stdout' = Log(sys_stdout, <<TokStarting>>, FALSE, 0).out
    /\ pc' = "loop"
    /\ event' = NoEvent
    /\ UNCHANGED <<library, allow_stop, shutdown, handlers, inv, response, reqCount,
                   sigCount, wrCount, codec>>

\* serve_forever: "while not self._shutdown", then the blocking handle_request()
ServeForever ==
    /\ pc = "loop"
    /\ pc' = IF shutdown THEN "stopped" ELSE "waiting"
    /\ response' = NoResponse
    /\ event' = NoEvent
    /\ UNCHANGED <<library, allow_stop, shutdown, handlers, sys_stdout, inv, reqCount,
                   sigCount, wrCount, codec>>

\* A failure leaves run_keyword.  The transport answers it with a fault and
\* the loop goes on; a fatal one may instead end the process.
Propagated(call, kind) ==
    /\ response' = [NoResponse EXCEPT !.type = "raised", !.kind = kind, !.call = call]
    /\ inv' = NoInv
    /\ pc' \in IF kind \in FatalExceptions THEN {"loop", "terminated"} ELSE {"loop"}

\* the request get_keyword_names
ReqGetKeywordNames ==
    /\ pc = "waiting"
    /\ reqCount < MaxRequests
    /\ reqCount' = reqCount + 1
    /\ response' = [NoResponse EXCEPT !.type = "names", !.names = GetKeywordNames(library)]
    /\ pc' = "loop"
    /\ event' = NoEvent
    /\ UNCHANGED <<library, allow_stop, shutdown, handlers, sys_stdout, inv, sigCount, wrCount, codec>>

\* the request get_keyword_arguments
ReqGetKeywordArguments(name, decl) ==
    /\ pc = "waiting"
    /\ reqCount < MaxRequests
    /\ reqCount' = reqCount + 1
    /\ GetKeyword(library, name) # "lib" => decl = Decl(FALSE, <<>>)
    /\ LET r == GetKeywordArguments(library, name, decl)
       IN response' = IF r.raised
                      THEN [NoResponse EXCEPT !.type = "raised", !.kind = "TypeError",
                                              !.name = name]
                      ELSE [NoResponse EXCEPT !.type = "args", !.name = name,
                                              !.decl = decl, !.args = r.args]
    /\ pc' = "loop"
    /\ event' = NoEvent
    /\ UNCHANGED <<library, allow_stop, shutdown, handlers, sys_stdout, inv, sigCount, wrCount, codec>>

\* the request get_keyword_documentation
ReqGetKeywordDocumentation(name) ==
    /\ pc = "waiting"
    /\ reqCount < MaxRequests
    /\ reqCount' = reqCount + 1
    /\ response' = [NoResponse EXCEPT !.type = "doc", !.name = name,
                                      !.doc = GetKeywordDocumentation(library, name)]
    /\ pc' = "loop"
    /\ event' = NoEvent
    /\ UNCHANGED <<library, allow_stop, shutdown, handlers, sys_stdout, inv, sigCount, wrCount, codec>>

\* the request stop_remote_server
ReqStopRemoteServer ==
    /\ pc = "waiting"
    /\ reqCount < MaxRequests
    /\ reqCount' = reqCount + 1
    /\ LET eff == StopRemoteServer(allow_stop, shutdown, sys_stdout, 0)
       IN /\ shutdown' = eff.shutdown
          /\ sys_stdout' = eff.out
          /\ event' = StopEvent("rpc", allow_stop, shutdown, eff)
          /\ response' = IF eff.raised
                         THEN [NoResponse EXCEPT !.type = "raised", !.kind = "ValueError"]
                         ELSE [NoResponse EXCEPT !.type = "stop"]
    /\ pc' = "loop"
    /\ UNCHANGED <<library, allow_stop, handlers, inv, sigCount, wrCount, codec>>

\* the request run_keyword, up to the call: _intercept_stdout and _get_keyword
RunKeyword(name) ==
    /\ pc = "waiting"
    /\ reqCount < MaxRequests
    /\ reqCount' = reqCount + 1
    /\ inv' = [NoInv EXCEPT !.id = reqCount + 1, !.name = name,
                            !.kw = GetKeyword(library, name), !.mode = "normal",
                            !.result = [NoResult EXCEPT !.return = StrVal(<<>>),
                                                        !.output = StrVal(<<>>),
                                                        !.error = StrVal(<<>>),
                                                        !.traceback = StrVal(<<>>)],
                            !.stale = (sys_stdout.target = "StringIO"
                                       /\ sys_stdout.buflist # <<>>)]
    /\ sys_stdout' = InterceptStdout(sys_stdout)
    /\ response' = NoResponse
    /\ pc' = "call"
    /\ event' = NoEvent
    /\ UNCHANGED <<library, allow_stop, shutdown, handlers, sigCount, wrCount, codec>>

\* the keyword writes to sys.stdout
KeywordWrite(s) ==
    /\ pc = "call"
    /\ inv.kw = "lib"
    /\ wrCount < MaxWrites
    /\ wrCount' = wrCount + 1
    /\ sys_stdout' = StdoutWrite(sys_stdout, s, inv.id).out
    /\ event' = NoEvent
    /\ UNCHANGED <<library, allow_stop, shutdown, handlers, pc, inv, response, reqCount,
                   sigCount, codec>>

\* run_keyword from the end of the call to the call of _restore_stdout: the
\* except and else clauses, with _get_error_details
AfterCall(o) ==
    LET call == [inv EXCEPT !.outcome = o]
    IN IF o.type = "raise"
       THEN IF o.kind \in FatalExceptions
            THEN /\ inv' = [call EXCEPT !.result.status = "FAIL", !.mode = "fatal"]
                 /\ pc' = "getvalue"
                 /\ UNCHANGED response
            ELSE LET err == GetErrorMessage(o.kind, o.value)
                 IN IF IsRaise(err)
                    THEN Propagated(call, err.tag)
                    ELSE /\ inv' = [call EXCEPT !.result.status = "FAIL",
                                                !.result.error = err,
                                                !.result.traceback = GetErrorTraceback(o.tb)]
                         /\ pc' = "getvalue"
                         /\ UNCHANGED response
       ELSE LET rv == HandleReturnValue(o.value)
            IN IF IsRaise(rv)
               THEN Propagated(call, rv.tag)
               ELSE /\ inv' = [call EXCEPT !.result.status = "PASS", !.result.return = rv]
                    /\ pc' = "getvalue"
                    /\ UNCHANGED response

\* the call of a routine of the library returns or raises
CallLibrary(o) ==
    /\ pc = "call"
    /\ inv.kw = "lib"
    /\ AfterCall(o)
    /\ event' = NoEvent
    /\ UNCHANGED <<library, allow_stop, shutdown, handlers, sys_stdout, reqCount, sigCount, wrCount, codec>>

\* the call of self.stop_remote_server as a keyword; sys.stdout is the
\* StringIO of _intercept_stdout
CallStop ==
    /\ pc = "call"
    /\ inv.kw = "stop"
    /\ LET eff == StopRemoteServer(allow_stop, shutdown, sys_stdout, inv.id)
       IN /\ shutdown' = eff.shutdown
          /\ sys_stdout' = eff.out
          /\ event' = StopEvent("keyword", allow_stop, shutdown, eff)
    /\ AfterCall(Returned(IntVal(1)))
    /\ UNCHANGED <<library, allow_stop, handlers, reqCount, sigCount, wrCount, codec>>

\* the call of None: TypeError, raised in run_keyword's own frame
CallNone ==
    /\ pc = "call"
    /\ inv.kw = "none"
    /\ AfterCall(Raised("TypeError", StrVal(<<TokNotCallable>>), <<TokEngineFrame>>))
    /\ event' = NoEvent
    /\ UNCHANGED <<library, allow_stop, shutdown, handlers, sys_stdout, reqCount, sigCount, wrCount, codec>>

\* _restore_stdout: output = sys.stdout.getvalue()
RestoreGetvalue ==
    /\ pc = "getvalue"
    /\ LET v == GetValue(sys_stdout)
       IN IF IsRaise(v)
          THEN Propagated(inv, v.tag)
          ELSE /\ inv' = [inv EXCEPT !.output = v, !.srcs = sys_stdout.buflist]
               /\ pc' = "close"
               /\ UNCHANGED response
    /\ event' = NoEvent
    /\ UNCHANGED <<library, allow_stop, shutdown, handlers, sys_stdout, reqCount, sigCount, wrCount, codec>>

\* _restore_stdout: sys.stdout.close()
RestoreClose ==
    /\ pc = "close"
    /\ sys_stdout' = [sys_stdout EXCEPT !.closed = TRUE]
    /\ pc' = "assign"
    /\ event' = NoEvent
    /\ UNCHANGED <<library, allow_stop, shutdown, handlers, inv, response, reqCount,
                   sigCount, wrCount, codec>>

\* _restore_stdout: sys.stdout = sys.__stdout__
RestoreAssign ==
    /\ pc = "assign"
    /\ sys_stdout' = Console
    /\ pc' = "encode"
    /\ event' = NoEvent
    /\ UNCHANGED <<library, allow_stop, shutdown, handlers, inv, response, reqCount,
                   sigCount, wrCount, codec>>

\* _restore_stdout: return self._handle_binary_result(output); then either
\* run_keyword returns the result or _get_error_details re-raises
RestoreEncode ==
    /\ pc = "encode"
    /\ LET enc == HandleBinaryResult(inv.output)
       IN IF IsRaise(enc) THEN Propagated(inv, enc.tag)
          ELSE IF inv.mode = "fatal" THEN Propagated(inv, inv.outcome.kind)
          ELSE /\ response' = [NoResponse EXCEPT
                                  !.type = "result",
                                  !.result = [inv.result EXCEPT !.output = enc],
                                  !.call = inv]
               /\ inv' = NoInv
               /\ pc' = "loop"
    /\ event' = NoEvent
    /\ UNCHANGED <<library, allow_stop, shutdown, handlers, sys_stdout, reqCount, sigCount, wrCount, codec>>

\* stop_with_signal, run by the main thread wherever it is.  When _log raises
\* (sys.stdout is a closed StringIO) the failure surfaces at that point: out of
\* run_keyword during an invocation, out of serve_forever otherwise.  A handler
\* that ran while handle_request() was blocked leaves it waiting for a request.
Signal ==
    /\ handlers
    /\ pc \notin {"stopped", "terminated"}
    /\ sigCount < MaxSignals
    /\ sigCount' = sigCount + 1
    /\ allow_stop' = TRUE
    /\ LET eff == StopRemoteServer(TRUE, shutdown, sys_stdout,
                                   IF pc \in InFlight THEN inv.id ELSE 0)
       IN /\ shutdown' = eff.shutdown
          /\ sys_stdout' = eff.out
          /\ event' = StopEvent("signal", TRUE, shutdown, eff)
          /\ IF ~eff.raised THEN UNCHANGED <<pc, inv, response>>
             ELSE IF pc \in InFlight THEN Propagated(inv, "ValueError")
             ELSE /\ pc' = "terminated"
                  /\ UNCHANGED <<inv, response>>
    /\ UNCHANGED <<library, handlers, reqCount, wrCount, codec>>

Next ==
    \/ RegisterSignalHandlers
    \/ AnnounceStart
    \/ ServeForever
    \/ ReqGetKeywordNames
    \/ \E name \in ArgumentNames, decl \in Decls : ReqGetKeywordArguments(name, decl)
    \/ \E name \in DocNames : ReqGetKeywordDocumentation(name)
    \/ ReqStopRemoteServer
    \/ \E name \in RequestNames : RunKeyword(name)
    \/ \E s \in Pieces : KeywordWrite(s)
    \/ \E o \in Outcomes : CallLibrary(o)
    \/ CallStop
    \/ CallNone
    \/ RestoreGetvalue
    \/ RestoreClose
    \/ RestoreAssign
    \/ RestoreEncode
    \/ Signal

Spec == Init /\ [][Next]_vars

\* A value on its way out and back: a keyword returns orig, run_keyword
\* encodes it for the wire (line 114), and the client passes what it received,
\* or orig itself, as the argument of a later run_keyword (line 104).
InitCodec ==
    /\ InitServer
    /\ \E v \in CodecValues : codec = [NoCodec EXCEPT !.stage = "returned", !.orig = v]

\* run_keyword, the else clause: the value goes to the wire unless the
\* encoding raises
EncodeReturn ==
    /\ codec.stage = "returned"
    /\ LET enc == HandleReturnValue(codec.orig)
       IN codec' = IF IsRaise(enc) THEN [codec EXCEPT !.stage = "raised"]
                   ELSE [codec EXCEPT !.stage = "wire", !.wire = enc]
    /\ UNCHANGED <<library, allow_stop, shutdown, handlers, sys_stdout, pc, inv, response,
                   event, reqCount, sigCount, wrCount>>

\* run_keyword, its first statement, on the argument list of one argument
\* that holds what came over the wire
PassArgument ==
    /\ codec.stage = "wire"
    /\ codec' = [codec EXCEPT !.stage = "arg",
                               !.arg = HandleBinaryArgs(<<codec.wire>>)[1]]
    /\ UNCHANGED <<library, allow_stop, shutdown, handlers, sys_stdout, pc, inv, response,
                   event, reqCount, sigCount, wrCount>>

\* the same on a value the client made itself, which is no Binary
PassOwnArgument ==
    /\ codec.stage = "returned"
    /\ codec.orig.tag # "Binary"
    /\ codec' = [codec EXCEPT !.stage = "own", !.wire = codec.orig,
                               !.arg = HandleBinaryArgs(<<codec.orig>>)[1]]
    /\ UNCHANGED <<library, allow_stop, shutdown, handlers, sys_stdout, pc, inv, response,
                   event, reqCount, sigCount, wrCount>>

NextCodec ==
    \/ EncodeReturn
    \/ PassArgument
    \/ PassOwnArgument

SpecCodec == InitCodec /\ [][NextCodec]_vars

\* the same server when no signal is ever delivered
NextQuiet ==
    \/ RegisterSignalHandlers
    \/ AnnounceStart
    \/ ServeForever
    \/ ReqGetKeywordNames
    \/ \E name \in ArgumentNames, decl \in Decls : ReqGetKeywordArguments(name, decl)
    \/ \E name \in DocNames : ReqGetKeywordDocumentation(name)
    \/ ReqStopRemoteServer
    \/ \E name \in RequestNames : RunKeyword(name)
    \/ \E s \in Pieces : KeywordWrite(s)
    \/ \E o \in Outcomes : CallLibrary(o)
    \/ CallStop
    \/ CallNone
    \/ RestoreGetvalue
    \/ RestoreClose
    \/ RestoreAssign
    \/ RestoreEncode

SpecQuiet == Init /\ [][NextQuiet]_vars

TypeOK ==
    /\ pc \in {"register", "announce", "loop", "waiting", "stopped", "terminated"}
              \cup InFlight
    /\ allow_stop \in BOOLEAN /\ shutdown \in BOOLEAN /\ handlers \in BOOLEAN
    /\ reqCount \in 0..MaxRequests /\ sigCount \in 0..MaxSignals
    /\ (pc \in InFlight) = (inv # NoInv)

\* ------------------------------------------------------------------ claims
AtRequestEnd == response.type \in {"result", "raised"} /\ response.call.id # 0

\* C1: whenever an invocation has finished, in any way, the capture is ended:
\* where the loop is about to accept the next request, sys.stdout is the
\* console.
C1_CaptureEndedBetweenRequests ==
    pc \in {"loop", "waiting"} => sys_stdout.target = "console"

\* C2: the output of every returned result is made of exactly the texts
\* written to sys.stdout during that same invocation, in order (a byte that is
\* not ASCII shown as U+FFFD): nothing written earlier or between invocations.
C2_NoOutputLeak ==
    response.type = "result" =>
        LET pieces == response.call.srcs
            written == Concat(pieces)
            output == response.result.output.s
        IN /\ \A i \in DOMAIN pieces : pieces[i].inv = response.call.id
           /\ Len(output) = Len(written)
           /\ \A i \in DOMAIN output :
                \/ output[i] = written[i]
                \/ NonAscii(written[i]) /\ output[i] = ReplacementChar

\* an invocation that began with an earlier invocation's buffer still
\* installed and holding text has returned a result with output of its own
C2_Witness ==
    /\ response.type = "result"
    /\ response.call.stale
    /\ response.result.output.s # <<>>

\* C3: a stop executed while stopping is allowed sets the shutdown flag, and
\* once the flag is set the loop accepts no further request.
C3_StopEndsLoop ==
    [][ /\ (event'.op = "stop" /\ event'.allowed) => shutdown'
        /\ shutdown => reqCount' = reqCount ]_vars

\* C4: a stop executed while stopping is not allowed changes neither flag
\* (the server is still running, stopping still not allowed), writes only the
\* warning line and returns True; the process goes on.
C4_RefusedStopChangesNothing ==
    (event.op = "stop" /\ ~event.allowed) =>
        /\ shutdown = event.down /\ ~shutdown
        /\ allow_stop = event.allowed
        /\ event.returned
        /\ event.log = <<TokWarn, TokNoStopping>>
        /\ pc \notin {"stopped", "terminated"}

C4_Witness ==
    /\ event.op = "stop" /\ ~event.allowed /\ event.returned
    /\ reqCount > 0 /\ ~shutdown

\* C5: a termination signal, whenever it is delivered, allows stopping and
\* sets the shutdown flag.
C5_SignalStops ==
    [][ event'.via = "signal" => (allow_stop' /\ shutdown') ]_vars

\* C6: the list of get_keyword_names holds stop_remote_server exactly once.
C6_StopListedOnce ==
    response.type = "names" =>
        Cardinality({i \in DOMAIN response.names :
                        response.names[i] = "stop_remote_server"}) = 1

\* the lexemes with which an error would state a failed lookup
NotFoundLexemes == {KindTok("AttributeError"), KindTok("LookupError")}

\* C7: invoking a name that resolves to nothing ends with a FAIL result whose
\* error states that the operation was not found; no failure leaves
\* run_keyword and the process goes on.
C7_UnknownNameFails ==
    (AtRequestEnd /\ response.call.kw = "none") =>
        /\ response.type = "result"
        /\ response.result.status = "FAIL"
        /\ \E i \in DOMAIN response.result.error.s :
              response.result.error.s[i] \in NotFoundLexemes
        /\ pc # "terminated"

\* C8: an invocation whose operation raised SystemExit or KeyboardInterrupt
\* returns no result: sys.stdout is the console again and that same failure
\* leaves run_keyword.
C8_FatalReraised ==
    (AtRequestEnd /\ response.call.outcome.kind \in FatalExceptions) =>
        /\ response.type = "raised"
        /\ response.kind = response.call.outcome.kind
        /\ sys_stdout.target = "console"

\* C9: the result of an invocation whose operation raised a recoverable
\* failure has status FAIL, return '' and as error: the kind name when the
\* message is empty, the bare message for AssertionError, RuntimeError and
\* Exception, and "Kind: message" for any other kind.  (The message is the
\* failure's text: a byte that is not ASCII reads U+FFFD.)
C9_ErrorMessage ==
    (response.type = "result" /\ response.call.outcome.type = "raise") =>
        LET o == response.call.outcome
            m == IF o.value.tag = "str" THEN DecodeReplace(o.value.s) ELSE o.value.s
        IN /\ response.result.status = "FAIL"
           /\ response.result.return = StrVal(<<>>)
           /\ response.result.error.s =
                IF m = <<>> THEN <<KindTok(o.kind)>>
                ELSE IF o.kind \in {"AssertionError", "RuntimeError", "Exception"} THEN m
                ELSE <<KindTok(o.kind), TokColonSpace>> \o m

\* a custom kind with a message, and a generic kind with a message
C9_Witness ==
    /\ response.type = "result"
    /\ response.call.outcome.kind = "ValueError"
    /\ response.call.outcome.value.s # <<>>
    /\ response.result.error.s[1] = KindTok("ValueError")

RECURSIVE WireSafe(_)
WireSafe(v) ==
    CASE v.tag \in {"str", "unicode"} -> \A i \in DOMAIN v.s : v.s[i] \notin BINARY
      [] v.tag \in {"int", "Binary"} -> TRUE
      [] v.tag = "list" -> \A i \in DOMAIN v.items : WireSafe(v.items[i])
      [] v.tag = "dict" -> \A i \in DOMAIN v.items :
                              /\ v.items[i].k.tag \in {"str", "unicode"}
                              /\ WireSafe(v.items[i].k)
                              /\ WireSafe(v.items[i].v)
      [] OTHER -> FALSE

\* C10: output, return, error and traceback of every returned result are
\* wire-safe values.
C10_ResultWireSafe ==
    response.type = "result" =>
        /\ WireSafe(response.result.output)
        /\ WireSafe(response.result.return)
        /\ WireSafe(response.result.error)
        /\ WireSafe(response.result.traceback)

\* C11: the result of an invocation whose operation returned normally has
\* status PASS, as output exactly the text written to sys.stdout during the
\* call (as a blob when it holds a control byte, a byte that is not ASCII
\* shown as U+FFFD otherwise), as return the encoded return value, and empty
\* error and traceback.
C11_PassResult ==
    (response.type = "result" /\ response.call.outcome.type = "return") =>
        LET pieces == response.call.srcs
            written == Concat(pieces)
            allStr == \A i \in DOMAIN pieces : pieces[i].text.tag = "str"
            out == response.result.output
        IN /\ response.result.status = "PASS"
           /\ \A i \in DOMAIN pieces : pieces[i].inv = response.call.id
           /\ (out.tag = "Binary") = (\E i \in DOMAIN written : written[i] \in BINARY)
           /\ out.tag \in {"Binary", "unicode"}
           /\ out.s = IF out.tag = "unicode" /\ allStr THEN DecodeReplace(written)
                      ELSE written
           /\ response.result.return = HandleReturnValue(response.call.outcome.value)
           /\ response.result.error = StrVal(<<>>)
           /\ response.result.traceback = StrVal(<<>>)

\* a keyword wrote twice and returned a text
C11_Witness ==
    /\ response.type = "result"
    /\ response.call.kw = "lib"
    /\ response.call.outcome.type = "return"
    /\ Len(response.call.srcs) = 2
    /\ response.result.return.tag = "unicode"

\* a text that str() cannot turn into the bytes of a Binary: unicode holding a
\* control character and a character outside ASCII
Unencodable(v) ==
    /\ v.tag = "unicode"
    /\ \E i \in DOMAIN v.s : v.s[i] \in BINARY
    /\ \E i \in DOMAIN v.s : NonAscii(v.s[i])

\* the message of an exception as unicode, before it is encoded
MessageText(v) == IF v.tag = "str" THEN UnicodeVal(DecodeReplace(v.s)) ELSE v

\* C12: when the return value, the error message or the captured output of
\* an invocation cannot be encoded, the request hands back no result: the
\* ValueError of the encoding leaves run_keyword.
C12_EncodingFailureIsHard ==
    LET call == response.call
    IN (/\ AtRequestEnd
        /\ \/ call.outcome.type = "return" /\ Unencodable(call.outcome.value)
           \/ /\ call.outcome.type = "raise"
              /\ call.outcome.kind \notin FatalExceptions
              /\ Unencodable(MessageText(call.outcome.value))
           \/ Unencodable(call.output))
       => /\ response.type = "raised"
          /\ response.kind \in {"ValueError", "UnicodeDecodeError"}

\* the three cases: a return value, a message and an output that cannot be
\* encoded
C12_Witness ==
    /\ response.type = "raised"
    /\ response.kind = "ValueError"
    /\ response.call.outcome.type = "raise"
    /\ response.call.outcome.value = StrVal(<<Ctrl, High>>)

\* C13: a byte string holding a control byte goes to the wire as a Binary,
\* and that Binary passed back as an argument reaches the keyword as the
\* original byte string; an argument that is no Binary reaches it unchanged.
C13_RoundTrip ==
    /\ (codec.stage \in {"wire", "arg"} /\ codec.orig.tag = "str"
        /\ BinarySearch(codec.orig.s))
           => codec.wire.tag = "Binary"
    /\ (codec.stage = "raised") => codec.orig.tag # "str"
    /\ (codec.stage \in {"arg", "own"}) =>
           IF codec.wire.tag = "Binary"
           THEN /\ codec.arg.tag = "str"
                /\ codec.arg.s = codec.wire.s
                /\ (codec.orig.tag = "str" => codec.arg = codec.orig)
           ELSE codec.arg = codec.wire

\* a byte string with a control byte and a byte outside ASCII has come back
C13_Witness ==
    /\ codec.stage = "arg"
    /\ codec.orig = StrVal(<<Ctrl, High>>)
    /\ codec.wire = BinaryVal(<<Ctrl, High>>)
    /\ codec.arg = codec.orig

\* whether the library has a routine of that name
IsRoutineOf(lib, name) == name \in DOMAIN lib.attrs /\ lib.attrs[name] = "routine"

\* C14: get_keyword_arguments with a name that is no operation of the
\* library (and not the server's own stop operation) returns the empty list
\* and raises nothing, whatever state the server is in.
C14_UnknownNameHasNoArguments ==
    (/\ response.type \in {"args", "raised"}
     /\ response.name # ""
     /\ response.name # "stop_remote_server"
     /\ ~IsRoutineOf(library, response.name))
        => response.type = "args" /\ response.args = <<>>

\* asked about an attribute that is no routine while a capture buffer of an
\* earlier invocation is still installed
C14_Witness ==
    /\ response.type = "args"
    /\ response.name = "data"
    /\ "data" \in DOMAIN library.attrs
    /\ response.args = <<>>
    /\ sys_stdout.target = "StringIO"

\* what the claim says of a routine so declared: its parameters but self,
\* the required ones, then the defaulted ones, then the * and ** collectors
ExpectedArguments(decl) ==
    LET own == SelectSeq(decl.params, LAMBDA p : p.name # "self")
        of(kind) == SelectSeq(own, LAMBDA p : p.kind = kind)
        req == of("required")
        dflt == of("default")
        star == of("varargs")
        dstar == of("kwargs")
    IN [i \in DOMAIN req |-> <<req[i].name>>]
       \o [i \in DOMAIN dflt |-> <<dflt[i].name, "=", dflt[i].default>>]
       \o [i \in DOMAIN star |-> <<"*", star[i].name>>]
       \o [i \in DOMAIN dstar |-> <<"**", dstar[i].name>>]

\* C15: for a found operation get_keyword_arguments returns the required
\* parameters as bare names, then the defaulted ones as name=default, then
\* *name, then **name, each in the order of declaration and without the self
\* of a method; for the server's own stop operation that is the empty list.
C15_ArgumentOrder ==
    (response.type = "args") =>
        /\ (response.name = "stop_remote_server") => response.args = <<>>
        /\ (response.name # "stop_remote_server" /\ IsRoutineOf(library, response.name))
               => response.args = ExpectedArguments(response.decl)

\* a method with all four kinds of parameter
C15_Witness ==
    /\ response.type = "args"
    /\ response.name = "kw"
    /\ response.decl.method
    /\ response.args = << <<"a">>, <<"b", "=", "1">>, <<"*", "args">>, <<"**", "kwargs">> >>

\* the docstring of the library's routine of that name, '' when it has none
\* or there is no such routine
DocOf(lib, name) ==
    IF IsRoutineOf(lib, name) /\ name \in DOMAIN lib.docs THEN lib.docs[name] ELSE <<>>

\* C16 as stated: get_keyword_documentation('__init__') returns '' for every
\* library; for a name that is not special it returns the operation's
\* docstring, or '' when there is none.
C16_InitDocAlwaysEmpty ==
    (response.type = "doc") =>
        /\ (response.name = "__init__") => response.doc = <<>>
        /\ (response.name \notin {"__init__", "__intro__", "stop_remote_server"})
               => response.doc = DocOf(library, response.name)

\* C16 as the code has it: get_keyword_documentation('__init__') returns ''
\* when the library is a module and the docstring of the library's __init__
\* otherwise; for a name that is not special it returns the operation's
\* docstring, or '' when there is none.
C16_InitDocEmptyForModule ==
    (response.type = "doc") =>
        /\ (response.name = "__init__") =>
               response.doc = IF library.ismodule THEN <<>> ELSE DocOf(library, "__init__")
        /\ (response.name = "stop_remote_server") => response.doc = <<>>
        /\ (response.name \notin {"__init__", "__intro__", "stop_remote_server"})
               => response.doc = DocOf(library, response.name)

\* a module whose __init__ has a docstring was asked about '__init__'
C16_Witness ==
    /\ response.type = "doc"
    /\ response.name = "__init__"
    /\ library.ismodule
    /\ DocOf(library, "__init__") # <<>>
    /\ response.doc = <<>>

\* C17: the flags only move forward: _shutdown never goes from true to
\* false and _allow_stop never from true to false; _shutdown is written by
\* stop_remote_server only and _allow_stop by the signal handler only, never
\* by an invocation of a keyword of the library or by an introspection
\* request; a loop that has ended stays ended.
C17_FlagsMoveForward ==
    [][ /\ shutdown => shutdown'
        /\ allow_stop => allow_stop'
        /\ (shutdown' # shutdown) => event'.op = "stop"
        /\ (allow_stop' # allow_stop) => event'.via = "signal"
        /\ (pc = "stopped") => pc' = "stopped" ]_vars

\* stop_remote_server ran when the flag was already set, and it stayed set
C17_Witness ==
    /\ event.op = "stop"
    /\ event.down
    /\ event.returned
    /\ shutdown /\ allow_stop

\* C18: capture scopes do not overlap: whenever run_keyword begins to
\* capture, sys.stdout is the console and no capture buffer of another
\* invocation is installed.
C18_CaptureStartsFromConsole ==
    [][ (pc = "waiting" /\ pc' = "call") => sys_stdout.target = "console" ]_vars

\* C19: a signal handled while an invocation is in flight leaves the
\* invocation as it is, to run to its end and return its result, and once a
\* signal has been handled, in flight or while the loop is idle, no further
\* request is accepted.
C19_SignalPreventsNextRequest ==
    [][ /\ (event'.via = "signal" /\ pc \in InFlight) => (pc' = pc /\ inv' = inv)
        /\ (reqCount' # reqCount) => sigCount = 0 ]_vars

\* whether get_keyword_names lists the name
IsListed(lib, name) ==
    \E i \in DOMAIN GetKeywordNames(lib) : GetKeywordNames(lib)[i] = name

\* C20: every name that get_keyword_names lists resolves: run_keyword finds
\* a callable for it and get_keyword_arguments does not take it for missing,
\* whatever the library, one with an enumerator of its own included; and
\* stop_remote_server always resolves to the server's own method.
C20_ListedNamesResolve ==
    /\ (AtRequestEnd /\ IsListed(library, response.call.name))
           => response.call.kw # "none"
    /\ (response.type = "args" /\ IsListed(library, response.name))
           => GetKeyword(library, response.name) # "none"
    /\ (AtRequestEnd /\ response.call.name = "stop_remote_server")
           => response.call.kw = "stop"

====
